---- MODULE Spec2Model ----
(***************************************************************************)
(* The voice text editor (TextEditor component): the document text, its    *)
(* token list, the linear undo/redo history and the context-aware word     *)
(* replacement engine (applySemanticEdit), dictation append and            *)
(* click-to-delete.                                                        *)
(*                                                                         *)
(* A JavaScript string is modelled as a sequence of one-character strings, *)
(* so tokenizing, trimming, lower-casing and the regular-expression tests  *)
(* of the source are computed character by character.                      *)
(***************************************************************************)
EXTENDS Integers, Sequences, FiniteSets, TLC

VARIABLES
    text,               \* useState(initialText)
    words,              \* useState<string[]>: text.match(/\S+|\s+/g)
    editHistory,        \* useState<string[]>([initialText])
    historyIndex,       \* useState(0), 0-based cursor into editHistory
    focusedWordIndex,   \* useState<number | null>: <<>> is null, <<i>> is i
    lockedWordIndex,    \* useState<number | null>: <<>> is null, <<i>> is i
    isListening,        \* useState(false)
    showFeedback,       \* useState(false): the feedback toast is shown and
                        \* the Undo / Redo buttons are not rendered
    isListeningRef,     \* useRef<boolean>(false)
    isStartingRef,      \* useRef<boolean>(false)
    stopRequestedRef,   \* useRef<boolean>(false)
    realTimeSpeechTextRef,  \* useRef<string>("")
    recognition,        \* recognitionRef.current: "unsupported" is null, else
                        \* the recognizer's status "idle", "starting",
                        \* "started", "stopping" or "errored" (onerror has
                        \* fired, onend is still to come)
    spaceHeld,          \* the Space key is down (keydown repeats are ignored)
    pointer,            \* where the mouse is: Outside the text container,
                        \* Gap (in the container, on no word), or the index
                        \* of the word span it is on
    simulationTimers,   \* the pending setTimeout callbacks of
                        \* simulateVoiceInput, oldest first
    lastOp              \* trace only: the return path taken by the last handler
                        \* that went through the document (edit, undo, redo),
                        \* the number of redo entries there were when it ran
                        \* and the message it gave showTemporaryFeedback

vars == <<text, words, editHistory, historyIndex,
          focusedWordIndex, lockedWordIndex, isListening, showFeedback,
          isListeningRef, isStartingRef, stopRequestedRef, realTimeSpeechTextRef,
          recognition, spaceHeld, pointer, simulationTimers, lastOp>>

\* the refs, the recognizer, the keyboard, the mouse and the timers
voiceVars == <<isListeningRef, isStartingRef, stopRequestedRef,
               realTimeSpeechTextRef, recognition, spaceHeld, pointer,
               simulationTimers>>

docVars == <<text, words, editHistory, historyIndex>>

null == <<>>

\* pointer positions that are no span index
Outside == -2
Gap == -1

----------------------------------------------------------------------------
(* Characters and the string primitives of JavaScript the editor uses.     *)

WhitespaceChars == {" ", "\t", "\n", "\r"}

IsWs(c) == c \in WhitespaceChars

Digits == {"0", "1", "2", "3", "4", "5", "6", "7", "8", "9"}

UpperCase == <<"A", "B", "C", "D", "E", "F", "G", "H", "I", "J", "K", "L", "M",
               "N", "O", "P", "Q", "R", "S", "T", "U", "V", "W", "X", "Y", "Z">>

LowerCase == <<"a", "b", "c", "d", "e", "f", "g", "h", "i", "j", "k", "l", "m",
               "n", "o", "p", "q", "r", "s", "t", "u", "v", "w", "x", "y", "z">>

UpperToLower ==
    [c \in {UpperCase[k] : k \in DOMAIN UpperCase} |->
        LowerCase[CHOOSE k \in DOMAIN UpperCase : UpperCase[k] = c]]

\* String.prototype.toLowerCase
toLowerCase(s) ==
    [i \in 1..Len(s) |-> IF s[i] \in DOMAIN UpperToLower THEN UpperToLower[s[i]] ELSE s[i]]

\* String.prototype.trim
RECURSIVE firstNonWs(_, _)
firstNonWs(s, i) == IF i <= Len(s) /\ IsWs(s[i]) THEN firstNonWs(s, i + 1) ELSE i

RECURSIVE lastNonWs(_, _)
lastNonWs(s, i) == IF i >= 1 /\ IsWs(s[i]) THEN lastNonWs(s, i - 1) ELSE i

trim(s) == SubSeq(s, firstNonWs(s, 1), lastNonWs(s, Len(s)))

\* String.prototype.includes, and RegExp.test of a literal alternative
includes(s, p) ==
    \E i \in 1..(Len(s) - Len(p) + 1) : SubSeq(s, i, i + Len(p) - 1) = p

\* String.prototype.startsWith
startsWith(s, p) == Len(s) >= Len(p) /\ SubSeq(s, 1, Len(p)) = p

\* /\s$/.test(s) and /^\s/.test(s)
endsWithWs(s) == Len(s) > 0 /\ IsWs(s[Len(s)])

startsWithWs(s) == Len(s) > 0 /\ IsWs(s[1])

\* /^\s+$/.test(s)
isAllWs(s) == Len(s) > 0 /\ \A i \in 1..Len(s) : IsWs(s[i])

\* RegExp.test of an unanchored alternation of literals: a substring search
testAny(s, alternatives) == \E p \in alternatives : includes(s, p)

\* Array.prototype.join("")
RECURSIVE join(_)
join(ws) == IF ws = <<>> THEN <<>> ELSE Head(ws) \o join(Tail(ws))

\* s.replace(/^<word>\s+/i, ""): drops a leading <word> (any case) and the
\* whole whitespace run after it; s is unchanged when the pattern does not match
replaceLeadingWord(s, word) ==
    LET n == Len(word)
    IN  IF Len(s) > n /\ toLowerCase(SubSeq(s, 1, n)) = word /\ IsWs(s[n + 1])
        THEN SubSeq(s, firstNonWs(s, n + 1), Len(s))
        ELSE s

----------------------------------------------------------------------------
(* The literals of the source's patterns.                                  *)

str_monday == <<"m", "o", "n", "d", "a", "y">>
str_tuesday == <<"t", "u", "e", "s", "d", "a", "y">>
str_wednesday == <<"w", "e", "d", "n", "e", "s", "d", "a", "y">>
str_thursday == <<"t", "h", "u", "r", "s", "d", "a", "y">>
str_friday == <<"f", "r", "i", "d", "a", "y">>
str_saturday == <<"s", "a", "t", "u", "r", "d", "a", "y">>
str_sunday == <<"s", "u", "n", "d", "a", "y">>
str_tomorrow == <<"t", "o", "m", "o", "r", "r", "o", "w">>
str_today == <<"t", "o", "d", "a", "y">>
str_yesterday == <<"y", "e", "s", "t", "e", "r", "d", "a", "y">>
str_am == <<"a", "m">>
str_pm == <<"p", "m">>
str_noon == <<"n", "o", "o", "n">>
str_midnight == <<"m", "i", "d", "n", "i", "g", "h", "t">>
str_studio == <<"s", "t", "u", "d", "i", "o">>
str_office == <<"o", "f", "f", "i", "c", "e">>
str_room == <<"r", "o", "o", "m">>
str_home == <<"h", "o", "m", "e">>
str_building == <<"b", "u", "i", "l", "d", "i", "n", "g">>
str_conference_room ==
    <<"c", "o", "n", "f", "e", "r", "e", "n", "c", "e", " ", "r", "o", "o", "m">>
str_online == <<"o", "n", "l", "i", "n", "e">>
str_at == <<"a", "t">>
str_in == <<"i", "n">>
str_on == <<"o", "n">>
str_for == <<"f", "o", "r">>
str_with == <<"w", "i", "t", "h">>
str_to == <<"t", "o">>
str_by == <<"b", "y">>
str_the == <<"t", "h", "e">>
str_a == <<"a">>
str_an == <<"a", "n">>
str_this == <<"t", "h", "i", "s">>
str_that == <<"t", "h", "a", "t">>
str_these == <<"t", "h", "e", "s", "e">>
str_those == <<"t", "h", "o", "s", "e">>
str_next == <<"n", "e", "x", "t">>
str_last == <<"l", "a", "s", "t">>
str_coming == <<"c", "o", "m", "i", "n", "g">>
str_previous == <<"p", "r", "e", "v", "i", "o", "u", "s">>
str_in_space == <<"i", "n", " ">>
str_at_space == <<"a", "t", " ">>

\* /monday|tuesday|wednesday|thursday|friday|saturday|sunday/i
WeekdayPattern ==
    {str_monday, str_tuesday, str_wednesday, str_thursday, str_friday,
     str_saturday, str_sunday}

\* /monday|...|sunday|tomorrow|today|yesterday/i
NewDayPattern == WeekdayPattern \cup {str_tomorrow, str_today, str_yesterday}

\* /(studio|office|room|home|building)/i
LocationPattern == {str_studio, str_office, str_room, str_home, str_building}

\* /(conference room|office|studio|building|online)/i
NewLocationPattern ==
    {str_conference_room, str_office, str_studio, str_building, str_online}

\* /at|in|on|for|with|to|by/i
PrepositionPattern == {str_at, str_in, str_on, str_for, str_with, str_to, str_by}

\* /the|a|an|this|that|these|those/i
ArticlePattern == {str_the, str_a, str_an, str_this, str_that, str_these, str_those}

\* /next|last|this|coming|previous/i
TemporalPattern == {str_next, str_last, str_this, str_coming, str_previous}

\* /\d+(:\d+)?\s*(am|pm)|noon|midnight/i on a lower-cased string
testTimePattern(s) ==
    LET n == Len(s)
        digitsRun(a, b) == a <= b /\ \A k \in a..b : s[k] \in Digits
        \* \s*(am|pm) matched from position a on
        meridiemAt(a) ==
            \E m \in a..(n - 1) :
                /\ \A k \in a..(m - 1) : IsWs(s[k])
                /\ SubSeq(s, m, m + 1) \in {str_am, str_pm}
    IN  \/ \E a \in 1..n : \E b \in a..n :
              /\ digitsRun(a, b)
              /\ \/ meridiemAt(b + 1)
                 \/ /\ b + 1 <= n
                    /\ s[b + 1] = ":"
                    /\ \E c \in (b + 2)..n : digitsRun(b + 2, c) /\ meridiemAt(c + 1)
        \/ includes(s, str_noon)
        \/ includes(s, str_midnight)

----------------------------------------------------------------------------
(* Inputs: the initial texts (the initialText prop) and the transcripts.    *)

\* "Could we meet on Monday at the Studio?" (main.tsx:23, the default initialText)
text_default ==
    <<"C", "o", "u", "l", "d", " ", "w", "e", " ", "m", "e", "e", "t", " ",
      "o", "n", " ", "M", "o", "n", "d", "a", "y", " ", "a", "t", " ", "t",
      "h", "e", " ", "S", "t", "u", "d", "i", "o", "?">>

\* "Meeting on Monday at 3pm"
text_meeting_monday ==
    <<"M", "e", "e", "t", "i", "n", "g", " ", "o", "n", " ", "M", "o", "n",
      "d", "a", "y", " ", "a", "t", " ", "3", "p", "m">>

\* "Meet me at the Studio"
text_meet_studio ==
    <<"M", "e", "e", "t", " ", "m", "e", " ", "a", "t", " ", "t", "h", "e",
      " ", "S", "t", "u", "d", "i", "o">>

\* "Meeting tomorrow at noon"
text_meeting_noon ==
    <<"M", "e", "e", "t", "i", "n", "g", " ", "t", "o", "m", "o", "r", "r",
      "o", "w", " ", "a", "t", " ", "n", "o", "o", "n">>

\* "Hello world"
text_hello_world ==
    <<"H", "e", "l", "l", "o", " ", "w", "o", "r", "l", "d">>

\* "See you on next Monday"
text_next_monday ==
    <<"S", "e", "e", " ", "y", "o", "u", " ", "o", "n", " ", "n", "e", "x",
      "t", " ", "M", "o", "n", "d", "a", "y">>

\* "On Monday we meet"
text_on_monday ==
    <<"O", "n", " ", "M", "o", "n", "d", "a", "y", " ", "w", "e", " ", "m",
      "e", "e", "t">>

\* ""
text_empty ==
    <<>>

\* "tomorrow"
say_tomorrow ==
    <<"t", "o", "m", "o", "r", "r", "o", "w">>

\* "next Tuesday"
say_next_tuesday ==
    <<"n", "e", "x", "t", " ", "T", "u", "e", "s", "d", "a", "y">>

\* "online"
say_online ==
    <<"o", "n", "l", "i", "n", "e">>

\* "Hi"
say_hi ==
    <<"H", "i">>

\* "Friday "
say_friday_padded ==
    <<"F", "r", "i", "d", "a", "y", " ">>

\* "in the conference room"
say_conference_room ==
    <<"i", "n", " ", "t", "h", "e", " ", "c", "o", "n", "f", "e", "r", "e",
      "n", "c", "e", " ", "r", "o", "o", "m">>

\* "at noon"
say_at_noon ==
    <<"a", "t", " ", "n", "o", "o", "n">>

\* "bring laptop"
say_bring_laptop ==
    <<"b", "r", "i", "n", "g", " ", "l", "a", "p", "t", "o", "p">>

\* ""
say_nothing ==
    <<>>

\* " "
say_blank ==
    <<" ">>

\* "Visit Studio by 5pm"
text_visit_studio ==
    <<"V", "i", "s", "i", "t", " ", "S", "t", "u", "d", "i", "o", " ", "b",
      "y", " ", "5", "p", "m">>

\* "See you 5pm"
text_see_you ==
    <<"S", "e", "e", " ", "y", "o", "u", " ", "5", "p", "m">>

HistoryTexts == {text_hello_world, text_empty}

HistoryContents == {say_hi, say_tomorrow, say_nothing}

InitialTexts ==
    {text_default,
     text_meeting_monday,
     text_meet_studio,
     text_meeting_noon,
     text_hello_world,
     text_next_monday,
     text_on_monday,
     text_empty}

\* the sentences of the preposition rules: a phrase with "at", with "by",
\* and targets that have no preposition before them
RuleTexts == {text_meet_studio, text_meeting_noon, text_visit_studio, text_see_you}

\* the contents of the preposition rules
RuleContents ==
    {say_conference_room, say_at_noon, say_online, say_hi, say_bring_laptop}

\* "See that building this coming Monday"
text_that_building ==
    <<"S", "e", "e", " ", "t", "h", "a", "t", " ", "b", "u", "i", "l", "d",
      "i", "n", "g", " ", "t", "h", "i", "s", " ", "c", "o", "m", "i", "n",
      "g", " ", "M", "o", "n", "d", "a", "y">>

\* "Last Saturday at home"
text_last_saturday ==
    <<"L", "a", "s", "t", " ", "S", "a", "t", "u", "r", "d", "a", "y", " ",
      "a", "t", " ", "h", "o", "m", "e">>

\* "home"
say_home ==
    <<"h", "o", "m", "e">>

\* "room"
say_room ==
    <<"r", "o", "o", "m">>

\* sentences made of words of the classifier's pattern lists
ClassifyTexts == {text_that_building, text_last_saturday, text_meet_studio}

\* contents that are location and day words of the pattern lists
ClassifyContents ==
    {say_home, say_room, say_online, say_conference_room, say_tomorrow, say_hi}

\* "Go on to the next Monday"
text_go_on ==
    <<"G", "o", " ", "o", "n", " ", "t", "o", " ", "t", "h", "e", " ", "n",
      "e", "x", "t", " ", "M", "o", "n", "d", "a", "y">>

\* "Monday Tuesday Wednesday Thursday Friday"
text_weekdays ==
    <<"M", "o", "n", "d", "a", "y", " ", "T", "u", "e", "s", "d", "a", "y",
      " ", "W", "e", "d", "n", "e", "s", "d", "a", "y", " ", "T", "h", "u",
      "r", "s", "d", "a", "y", " ", "F", "r", "i", "d", "a", "y">>

\* "in on to the next Monday"
text_in_on ==
    <<"i", "n", " ", "o", "n", " ", "t", "o", " ", "t", "h", "e", " ", "n",
      "e", "x", "t", " ", "M", "o", "n", "d", "a", "y">>

\* sentences with phrases of five and six words around the target
PhraseTexts == {text_go_on, text_weekdays, text_in_on}

\* the contents said over the five-word phrases
PhraseContents ==
    {say_tomorrow, say_hi, say_next_tuesday, say_online, say_at_noon}

\* "on Monday"
text_on_monday_only ==
    <<"o", "n", " ", "M", "o", "n", "d", "a", "y">>

\* the sentences of the voice sessions: one that keeps its tokens when a
\* word is replaced and one that loses tokens to the Day rule
VoiceTexts == {text_hello_world, text_on_monday_only}

\* what the recognizer hears and what simulateVoiceInput is given
VoiceContents == {say_hi, say_tomorrow}

Contents ==
    {say_tomorrow,
     say_next_tuesday,
     say_online,
     say_hi,
     say_friday_padded,
     say_conference_room,
     say_at_noon,
     say_bring_laptop,
     say_nothing,
     say_blank}

----------------------------------------------------------------------------
(* Tokenizer: text.match(/\S+|\s+/g) || []                                 *)

RECURSIVE runEnd(_, _)
runEnd(s, i) ==
    IF i < Len(s) /\ IsWs(s[i + 1]) = IsWs(s[i]) THEN runEnd(s, i + 1) ELSE i

RECURSIVE matchRuns(_, _)
matchRuns(s, i) ==
    IF i > Len(s) THEN <<>>
    ELSE LET e == runEnd(s, i) IN <<SubSeq(s, i, e)>> \o matchRuns(s, e + 1)

\* the split that keeps the words and drops the whitespace runs
Tokenize_wordsOnly(s) ==
    LET isWord(w) == ~IsWs(w[1])
    IN  SelectSeq(matchRuns(s, 1), isWord)

Tokenize(s) == matchRuns(s, 1)

----------------------------------------------------------------------------
(* Classifier: the two call sites of applySemanticEdit.                    *)

\* existing words (argument: words[i].trim().toLowerCase())
classifyWord(word) ==
    IF testAny(word, WeekdayPattern) THEN "day"
    ELSE IF testTimePattern(word) THEN "time"
    ELSE IF testAny(word, LocationPattern) THEN "location"
    ELSE IF testAny(word, PrepositionPattern) THEN "preposition"
    ELSE IF testAny(word, ArticlePattern) THEN "article"
    ELSE IF testAny(word, TemporalPattern) THEN "temporal"
    ELSE "other"

\* new content (argument: newContent.trim().toLowerCase())
classifyNewContent(newContentLower) ==
    IF testAny(newContentLower, NewDayPattern) THEN "day"
    ELSE IF testTimePattern(newContentLower) THEN "time"
    ELSE IF testAny(newContentLower, NewLocationPattern) THEN "location"
    ELSE "other"

\* the lower-cased words of the inputs, classified once
KnownWords ==
    {toLowerCase(trim(w)) :
        w \in UNION {{Tokenize(s)[k] : k \in 1..Len(Tokenize(s))} :
                        s \in InitialTexts \cup RuleTexts \cup ClassifyTexts
                                \cup PhraseTexts \cup VoiceTexts \cup Contents
                                \cup ClassifyContents}}

WordTypes == [w \in KnownWords |-> classifyWord(w)]

\* classifyWord(word), looked up when the word is one of the inputs
typeOfWord(word) ==
    IF word \in DOMAIN WordTypes THEN WordTypes[word] ELSE classifyWord(word)

\* structuredWords without the filter: whitespace tokens get an entry too
structuredWordsOf_keepsSpaces(ws) ==
    [k \in 1..Len(ws) |->
        LET word == toLowerCase(trim(ws[k]))
        IN  [index |-> k - 1, word |-> word, type |-> typeOfWord(word)]]

\* structuredWords: one {index, word, type} per non-whitespace token
structuredWordsOf(ws) ==
    LET positions == [k \in 1..Len(ws) |-> k - 1]
        isWord(i) == trim(ws[i + 1]) # <<>>
        kept == SelectSeq(positions, isWord)
    IN  [k \in 1..Len(kept) |->
            LET word == toLowerCase(trim(ws[kept[k] + 1]))
            IN  [index |-> kept[k], word |-> word, type |-> typeOfWord(word)]]

----------------------------------------------------------------------------
(* Phrase scope resolver.                                                  *)

\* the backward loop, from position i of structuredWords (0-based) down
RECURSIVE lookBackwards(_, _, _, _)
lookBackwards(structuredWords, targetWord, targetIndex, i) ==
    IF i < 0 THEN <<>>
    ELSE LET word == structuredWords[i + 1]
             further == IF targetIndex - i > 3 THEN <<>>
                        ELSE lookBackwards(structuredWords, targetWord, targetIndex, i - 1)
         IN  IF word.type \in {"preposition", "article", "temporal"}
             THEN <<word>> \o further
             ELSE IF word.type # targetWord.type THEN <<>>
             ELSE further

\* the forward loop, from position i of structuredWords (0-based) up
RECURSIVE lookForwards(_, _, _, _)
lookForwards(structuredWords, targetWord, targetIndex, i) ==
    IF i >= Len(structuredWords) THEN <<>>
    ELSE LET word == structuredWords[i + 1]
             further == IF i - targetIndex > 3 THEN <<>>
                        ELSE lookForwards(structuredWords, targetWord, targetIndex, i + 1)
         IN  IF word.type = targetWord.type \/ word.type = "article"
             THEN <<word>> \o further
             ELSE IF word.type \in {"preposition", "temporal"} THEN <<>>
             ELSE further

findPhraseMembers(structuredWords, targetWord) ==
    LET hits == {k \in 1..Len(structuredWords) :
                    structuredWords[k].index = targetWord.index}
    IN  IF hits = {} THEN <<targetWord>>
        ELSE LET targetIndex == (CHOOSE k \in hits : \A j \in hits : k <= j) - 1
             IN  <<targetWord>>
                 \o lookBackwards(structuredWords, targetWord, targetIndex, targetIndex - 1)
                 \o lookForwards(structuredWords, targetWord, targetIndex, targetIndex + 1)

\* phraseMembers.find((m) => m.type === type): <<>> when there is none
findMember(phraseMembers, type) ==
    LET hasType(m) == m.type = type
        found == SelectSeq(phraseMembers, hasType)
    IN  IF found = <<>> THEN <<>> ELSE <<Head(found)>>

----------------------------------------------------------------------------
(* Replacement rule engine and reassembler (applySemanticEdit).            *)

\* newWords[found.index] = "" when find returned a member
blankMember(newWords, found) ==
    IF found = <<>> THEN newWords ELSE [newWords EXCEPT ![found[1].index + 1] = <<>>]

\* what a rule leaves: the rewritten copy of words and the newContent
Rewrite(newWords, newContent) == [newWords |-> newWords, newContent |-> newContent]

\* the day rule whose "tomorrow" branch blanks the temporal modifier only
dayRule_keepsPreposition(ws, phraseMembers, newContent, newContentLower) ==
    LET phrasePreposition == findMember(phraseMembers, "preposition")
        phraseTemporal == findMember(phraseMembers, "temporal")
    IN  IF /\ phrasePreposition # <<>>
           /\ phrasePreposition[1].word = str_on
           /\ includes(newContentLower, str_next)
        THEN Rewrite([ws EXCEPT ![phrasePreposition[1].index + 1] = str_next],
                     replaceLeadingWord(newContent, str_next))
        ELSE IF phrasePreposition # <<>> /\ ~includes(newContentLower, str_tomorrow)
        THEN Rewrite(ws, newContent)
        ELSE IF newContentLower = str_tomorrow /\ phrasePreposition # <<>>
        THEN Rewrite(blankMember(ws, phraseTemporal), newContent)
        ELSE Rewrite(ws, newContent)

\* the day rule whose "next" branch leaves the new content as it was spoken
dayRule_keepsLeadingNext(ws, phraseMembers, newContent, newContentLower) ==
    LET phrasePreposition == findMember(phraseMembers, "preposition")
        phraseTemporal == findMember(phraseMembers, "temporal")
    IN  IF /\ phrasePreposition # <<>>
           /\ phrasePreposition[1].word = str_on
           /\ includes(newContentLower, str_next)
        THEN Rewrite([ws EXCEPT ![phrasePreposition[1].index + 1] = str_next],
                     newContent)
        ELSE IF phrasePreposition # <<>> /\ ~includes(newContentLower, str_tomorrow)
        THEN Rewrite(ws, newContent)
        ELSE IF newContentLower = str_tomorrow /\ phrasePreposition # <<>>
        THEN Rewrite(blankMember(blankMember(ws, phrasePreposition), phraseTemporal),
                     newContent)
        ELSE Rewrite(ws, newContent)

\* lines 548-575: target and new content are both "day"
dayRule(ws, phraseMembers, newContent, newContentLower) ==
    LET phrasePreposition == findMember(phraseMembers, "preposition")
        phraseTemporal == findMember(phraseMembers, "temporal")
    IN  IF /\ phrasePreposition # <<>>
           /\ phrasePreposition[1].word = str_on
           /\ includes(newContentLower, str_next)
        THEN Rewrite([ws EXCEPT ![phrasePreposition[1].index + 1] = str_next],
                     replaceLeadingWord(newContent, str_next))
        ELSE IF phrasePreposition # <<>> /\ ~includes(newContentLower, str_tomorrow)
        THEN Rewrite(ws, newContent)
        ELSE IF newContentLower = str_tomorrow /\ phrasePreposition # <<>>
        THEN Rewrite(blankMember(blankMember(ws, phrasePreposition), phraseTemporal),
                     newContent)
        ELSE Rewrite(ws, newContent)

\* the location rule whose "online" branch blanks the preposition only
locationRule_keepsArticle(ws, phraseMembers, newContent, newContentLower) ==
    LET phrasePreposition == findMember(phraseMembers, "preposition")
    IN  IF phrasePreposition = <<>> /\ startsWith(newContentLower, str_in_space)
        THEN Rewrite(ws, newContent)
        ELSE IF phrasePreposition # <<>> /\ newContentLower = str_online
        THEN Rewrite(blankMember(ws, phrasePreposition), newContent)
        ELSE IF /\ phrasePreposition # <<>>
                /\ startsWith(newContentLower, str_in_space)
                /\ phrasePreposition[1].word # str_in
        THEN Rewrite([ws EXCEPT ![phrasePreposition[1].index + 1] = str_in],
                     replaceLeadingWord(newContent, str_in))
        ELSE Rewrite(ws, newContent)

\* lines 576-603: target and new content are both "location"
locationRule(ws, phraseMembers, newContent, newContentLower) ==
    LET phrasePreposition == findMember(phraseMembers, "preposition")
        phraseArticle == findMember(phraseMembers, "article")
    IN  IF phrasePreposition = <<>> /\ startsWith(newContentLower, str_in_space)
        THEN Rewrite(ws, newContent)
        ELSE IF phrasePreposition # <<>> /\ newContentLower = str_online
        THEN Rewrite(blankMember(blankMember(ws, phrasePreposition), phraseArticle),
                     newContent)
        ELSE IF /\ phrasePreposition # <<>>
                /\ startsWith(newContentLower, str_in_space)
                /\ phrasePreposition[1].word # str_in
        THEN Rewrite([ws EXCEPT ![phrasePreposition[1].index + 1] = str_in],
                     replaceLeadingWord(newContent, str_in))
        ELSE Rewrite(ws, newContent)

\* the time rule that strips the content and leaves the preposition token
timeRule_keepsPreposition(ws, phraseMembers, newContent, newContentLower) ==
    LET phrasePreposition == findMember(phraseMembers, "preposition")
    IN  IF phrasePreposition = <<>> /\ startsWith(newContentLower, str_at_space)
        THEN Rewrite(ws, newContent)
        ELSE IF /\ phrasePreposition # <<>>
                /\ startsWith(newContentLower, str_at_space)
                /\ phrasePreposition[1].word # str_at
        THEN Rewrite(ws, replaceLeadingWord(newContent, str_at))
        ELSE Rewrite(ws, newContent)

\* lines 604-624: target and new content are both "time"
timeRule(ws, phraseMembers, newContent, newContentLower) ==
    LET phrasePreposition == findMember(phraseMembers, "preposition")
    IN  IF phrasePreposition = <<>> /\ startsWith(newContentLower, str_at_space)
        THEN Rewrite(ws, newContent)
        ELSE IF /\ phrasePreposition # <<>>
                /\ startsWith(newContentLower, str_at_space)
                /\ phrasePreposition[1].word # str_at
        THEN Rewrite([ws EXCEPT ![phrasePreposition[1].index + 1] = str_at],
                     replaceLeadingWord(newContent, str_at))
        ELSE Rewrite(ws, newContent)

\* the rules dispatched by the type of the new content alone
applyRules_byContentType(ws, targetWordObj, newType, phraseMembers, newContent) ==
    LET newContentLower == toLowerCase(trim(newContent))
    IN  IF newType = "day"
        THEN dayRule(ws, phraseMembers, newContent, newContentLower)
        ELSE IF newType = "location"
        THEN locationRule(ws, phraseMembers, newContent, newContentLower)
        ELSE IF newType = "time"
        THEN timeRule(ws, phraseMembers, newContent, newContentLower)
        ELSE Rewrite(ws, newContent)

\* lines 544-624: the rules fire only when targetWordObj.type === newType
applyRules(ws, targetWordObj, newType, phraseMembers, newContent) ==
    LET newContentLower == toLowerCase(trim(newContent))
    IN  IF targetWordObj.type = "day" /\ newType = "day"
        THEN dayRule(ws, phraseMembers, newContent, newContentLower)
        ELSE IF targetWordObj.type = "location" /\ newType = "location"
        THEN locationRule(ws, phraseMembers, newContent, newContentLower)
        ELSE IF targetWordObj.type = "time" /\ newType = "time"
        THEN timeRule(ws, phraseMembers, newContent, newContentLower)
        ELSE Rewrite(ws, newContent)

\* lines 630-643: drop empty entries and every whitespace entry that follows
\* a whitespace entry
RECURSIVE cleanWords(_, _, _)
cleanWords(newWords, i, prevWasSpace) ==
    IF i > Len(newWords) THEN <<>>
    ELSE LET word == newWords[i]
             isSpace == isAllWs(word)
         IN  IF word = <<>> THEN cleanWords(newWords, i + 1, prevWasSpace)
             ELSE IF isSpace /\ prevWasSpace
             THEN cleanWords(newWords, i + 1, prevWasSpace)
             ELSE <<word>> \o cleanWords(newWords, i + 1, isSpace)

\* lines 646-650: a space after every entry that neither ends in whitespace
\* nor is followed by an entry starting with whitespace
fixSpacing(cleanedWords) ==
    [i \in 1..Len(cleanedWords) |->
        IF /\ i < Len(cleanedWords)
           /\ ~endsWithWs(cleanedWords[i])
           /\ ~startsWithWs(cleanedWords[i + 1])
        THEN cleanedWords[i] \o <<" ">>
        ELSE cleanedWords[i]]

\* lines 629-653
reassemble(newWords) == join(fixSpacing(cleanWords(newWords, 1, FALSE)))

\* the push without the slice: the redo entries stay in front of newText
pushHistory_keepsRedo(history, hIndex, newText) == history \o <<newText>>

\* [...editHistory.slice(0, historyIndex + 1), newText] (lines 656, 749, 809)
pushHistory(history, hIndex, newText) == SubSeq(history, 1, hIndex + 1) \o <<newText>>

\* A handler's result: the document it leaves and the return path it took.
Result(outcome, t, history, hIndex) ==
    [outcome |-> outcome, text |-> t, editHistory |-> history, historyIndex |-> hIndex]

\* the blank test that looks at the untrimmed content only: " " passes it
isBlankContent_emptyOnly(newContent) == newContent = <<>>

\* !newContent.trim() (line 464), !transcript.trim() (line 728)
isBlankContent(newContent) == trim(newContent) = <<>>

\* the body of applySemanticEdit, given the structuredWords it builds from ws
\* (lines 476-508); t is the text it leaves alone when it returns early
applySemanticEditOn(structuredWords, t, ws, history, hIndex, wordIndex, newContent) ==
    IF isBlankContent(newContent) THEN Result("emptyContent", t, history, hIndex)
    ELSE
    LET isTarget(w) == w.index = wordIndex
        found == SelectSeq(structuredWords, isTarget)
    IN  IF found = <<>> THEN Result("targetNotFound", t, history, hIndex)
        ELSE
        LET targetWordObj == Head(found)
            newType == classifyNewContent(toLowerCase(trim(newContent)))
            phraseMembers == findPhraseMembers(structuredWords, targetWordObj)
            ruled == applyRules(ws, targetWordObj, newType, phraseMembers, newContent)
            newWords == [ruled.newWords EXCEPT ![wordIndex + 1] = ruled.newContent]
            newText == reassemble(newWords)
            newHistory == pushHistory(history, hIndex, newText)
        IN  Result("semanticEdit", newText, newHistory, Len(newHistory) - 1)

\* applySemanticEdit(wordIndex, newContent), reading wordsRef, editHistoryRef
\* and historyIndexRef
applySemanticEdit(t, ws, history, hIndex, wordIndex, newContent) ==
    applySemanticEditOn(structuredWordsOf(ws), t, ws, history, hIndex, wordIndex,
                        newContent)

\* appendDictation that puts a space before the transcript whatever the text
appendDictation_alwaysSpace(t, history, hIndex, transcript) ==
    IF isBlankContent(transcript) THEN Result("emptyDictation", t, history, hIndex)
    ELSE
    LET newText == t \o <<" ">> \o trim(transcript)
        newHistory == pushHistory(history, hIndex, newText)
    IN  Result("dictation", newText, newHistory, Len(newHistory) - 1)

\* appendDictation(transcript), reading textRef, editHistoryRef, historyIndexRef
appendDictation(t, history, hIndex, transcript) ==
    IF isBlankContent(transcript) THEN Result("emptyDictation", t, history, hIndex)
    ELSE
    LET needsSpace == Len(trim(t)) > 0 /\ ~endsWithWs(t)
        prefix == IF needsSpace THEN <<" ">> ELSE <<>>
        newText == t \o prefix \o trim(transcript)
        newHistory == pushHistory(history, hIndex, newText)
    IN  Result("dictation", newText, newHistory, Len(newHistory) - 1)

\* .replace(/\s+/g, " "): every whitespace run becomes one space
collapseWs(s) ==
    LET runs == Tokenize(s)
    IN  join([k \in 1..Len(runs) |-> IF isAllWs(runs[k]) THEN <<" ">> ELSE runs[k]])

\* onClick of a word span (delete word), reading the rendered words,
\* editHistory and historyIndex
deleteWord(t, ws, history, hIndex, listening, index) ==
    IF trim(ws[index + 1]) = <<>> \/ listening
    THEN Result("deleteIgnored", t, history, hIndex)
    ELSE
    LET newWords == [ws EXCEPT ![index + 1] = <<>>]
        nonEmptyBefore(i) == \E j \in 1..(i - 1) : trim(newWords[j]) # <<>>
        nonEmptyAfter(i) == \E j \in (i + 1)..Len(newWords) : trim(newWords[j]) # <<>>
        keepAt(i) ==
            IF trim(newWords[i]) # <<>> THEN TRUE
            ELSE IF newWords[i] = <<>> THEN FALSE
            ELSE nonEmptyBefore(i) /\ nonEmptyAfter(i)
        keptPositions == SelectSeq([k \in 1..Len(newWords) |-> k], keepAt)
        cleanedWords == [k \in 1..Len(keptPositions) |-> newWords[keptPositions[k]]]
        newText == trim(collapseWs(join(cleanedWords)))
        newHistory == pushHistory(history, hIndex, newText)
    IN  Result("deleteWord", newText, newHistory, Len(newHistory) - 1)

\* undo without its guard: at index 0 the cursor becomes -1 and the text
\* editHistory[-1], which is undefined (shown as the empty text)
undo_unguarded(t, history, hIndex) ==
    Result("undo", IF hIndex > 0 THEN history[(hIndex - 1) + 1] ELSE <<>>,
           history, hIndex - 1)

\* undo that moves the cursor and leaves the text of the entry it came from
undo_staleText(t, history, hIndex) ==
    IF hIndex > 0
    THEN Result("undo", t, history, hIndex - 1)
    ELSE Result("undoAtStart", t, history, hIndex)

\* undo(), reading the rendered editHistory and historyIndex
undo(t, history, hIndex) ==
    IF hIndex > 0
    THEN Result("undo", history[(hIndex - 1) + 1], history, hIndex - 1)
    ELSE Result("undoAtStart", t, history, hIndex)

\* redo without its guard: at the last entry the cursor moves past the end
redo_unguarded(t, history, hIndex) ==
    Result("redo",
           IF hIndex < Len(history) - 1 THEN history[(hIndex + 1) + 1] ELSE <<>>,
           history, hIndex + 1)

\* redo that moves the cursor and shows the entry it came from
redo_staleText(t, history, hIndex) ==
    IF hIndex < Len(history) - 1
    THEN Result("redo", history[hIndex + 1], history, hIndex + 1)
    ELSE Result("redoAtEnd", t, history, hIndex)

\* redo()
redo(t, history, hIndex) ==
    IF hIndex < Len(history) - 1
    THEN Result("redo", history[(hIndex + 1) + 1], history, hIndex + 1)
    ELSE Result("redoAtEnd", t, history, hIndex)

\* The message a handler passes to showTemporaryFeedback (setFeedbackMessage,
\* setShowFeedback(true)) on the return path it took: <<message>>, or null
\* when that path makes no call.  The early returns of applySemanticEdit
\* write to the console only (lines 465, 513), the early return of
\* appendDictation writes nothing (line 728), and undo, redo and the delete
\* click call it inside their guards.  The word or text quoted after
\* "Deleted", "Listening...", "Error" and "Simulated" (lines 814, 124, 197,
\* 436) is left out of the message.
feedbackOf(outcome) ==
    CASE outcome = "semanticEdit" -> <<"Semantic edit applied">>
      [] outcome = "dictation" -> <<"Text appended">>
      [] outcome = "deleteWord" -> <<"Deleted">>
      [] outcome = "undo" -> <<"Undo">>
      [] outcome = "redo" -> <<"Redo">>
      [] outcome = "listening" -> <<"Listening...">>
      [] outcome = "simulatingRecognition" -> <<"Simulating voice recognition">>
      [] outcome = "startError" -> <<"Error starting speech recognition">>
      [] outcome = "noSpeech" -> <<"No speech detected">>
      [] outcome = "recognitionError" -> <<"Error">>
      [] outcome = "simulated" -> <<"Simulated">>
      [] outcome = "hoverFirst" -> <<"Please hover over a word first">>
      [] OTHER -> null

----------------------------------------------------------------------------
(* Bounds.                                                                 *)

\* the longest history built when the whole editor runs (Spec)
MaxHistory == 3

\* the longest history built when only edit calls are made (SpecEdit)
MaxEditHistory == 2

\* the longest history built on the sentences of the preposition rules
\* (SpecRules)
MaxRuleHistory == 2

\* the longest history built on the sentences of the classifier's word lists
\* (SpecClassify)
MaxClassifyHistory == 2

\* the longest history built on the five-word phrases (SpecPhrase)
MaxPhraseHistory == 2

\* the longest history built with voice sessions, the mouse and the Undo
\* and Redo buttons (SpecVoice)
MaxVoiceHistory == 3

\* the most setTimeout callbacks of simulateVoiceInput pending at a time
MaxSimulationTimers == 1

----------------------------------------------------------------------------
(* State machine.                                                          *)

\* the state after the first render and its effects, for an initialText of
\* texts and a recognizer of one of the given statuses
InitEditor(texts, recognizers) ==
    /\ text \in texts
    /\ words = Tokenize(text)
    /\ editHistory = <<text>>
    /\ historyIndex = 0
    /\ focusedWordIndex = null
    /\ lockedWordIndex = null
    /\ isListening = FALSE
    /\ showFeedback = FALSE
    /\ isListeningRef = FALSE
    /\ isStartingRef = FALSE
    /\ stopRequestedRef = FALSE
    /\ realTimeSpeechTextRef = <<>>
    /\ recognition \in recognizers
    /\ spaceHeld = FALSE
    /\ pointer = Outside
    /\ simulationTimers = <<>>
    /\ lastOp = [outcome |-> "init", redoBefore |-> 0, feedback |-> null]

InitWith(texts) == InitEditor(texts, {"idle"})

\* an edit is taken only while the history it would build fits the bound
CanGrow(limit) == historyIndex + 2 <= limit

\* setText / setEditHistory / setHistoryIndex of a handler's result, followed
\* by the effect that re-splits the text into words (lines 227-231); the
\* effect depends on text and does not run when the text stays the same
Commit(r) ==
    /\ text' = r.text
    /\ words' = IF r.text = text THEN words ELSE Tokenize(r.text)
    /\ editHistory' = r.editHistory
    /\ historyIndex' = r.historyIndex
    /\ lastOp' = [outcome |-> r.outcome,
                   redoBefore |-> Len(editHistory) - 1 - historyIndex,
                   feedback |-> feedbackOf(r.outcome)]
    /\ showFeedback' = (showFeedback \/ feedbackOf(r.outcome) # null)

\* a call applySemanticEdit(wordIndex, newContent), as recognition.onend and
\* the simulateVoiceInput timer make it
ApplySemanticEdit(wordIndex, newContent) ==
    /\ Commit(applySemanticEdit(text, words, editHistory, historyIndex,
                                wordIndex, newContent))
    /\ UNCHANGED <<focusedWordIndex, lockedWordIndex, isListening, voiceVars>>

\* a call appendDictation(transcript), as recognition.onend makes it
AppendDictation(transcript) ==
    /\ Commit(appendDictation(text, editHistory, historyIndex, transcript))
    /\ UNCHANGED <<focusedWordIndex, lockedWordIndex, isListening, voiceVars>>

\* a click on the span of words[index]
DeleteWord(index) ==
    LET r == deleteWord(text, words, editHistory, historyIndex, isListening, index)
    IN  /\ Commit(r)
        /\ IF r.outcome = "deleteWord"
           THEN focusedWordIndex' = null /\ lockedWordIndex' = null
           ELSE UNCHANGED <<focusedWordIndex, lockedWordIndex>>
        /\ UNCHANGED <<isListening, voiceVars>>

\* a click on the Undo button, or a call undo()
Undo ==
    /\ Commit(undo(text, editHistory, historyIndex))
    /\ UNCHANGED <<focusedWordIndex, lockedWordIndex, isListening, voiceVars>>

\* a click on the Redo button, or a call redo()
Redo ==
    /\ Commit(redo(text, editHistory, historyIndex))
    /\ UNCHANGED <<focusedWordIndex, lockedWordIndex, isListening, voiceVars>>

\* calls applySemanticEdit(wordIndex, newContent): any token position, and
\* the position one past the last token
SemanticEdits(contents, limit) ==
    /\ CanGrow(limit)
    /\ \E wordIndex \in 0..Len(words) : \E newContent \in contents :
          ApplySemanticEdit(wordIndex, newContent)

Dictations(contents, limit) ==
    /\ CanGrow(limit)
    /\ \E transcript \in contents : AppendDictation(transcript)

\* clicks on any rendered span
Deletions(limit) ==
    /\ CanGrow(limit)
    /\ \E index \in 0..(Len(words) - 1) : DeleteWord(index)

\* The whole editor on short texts: edits, undo and redo.
Init == InitWith(HistoryTexts)

Next ==
    \/ SemanticEdits(HistoryContents, MaxHistory)
    \/ Dictations(HistoryContents, MaxHistory)
    \/ Deletions(MaxHistory)
    \/ Undo
    \/ Redo

Spec == Init /\ [][Next]_vars

\* The edit calls alone, on the sentences and transcripts of the rules.
InitEdit == InitWith(InitialTexts)

NextEdit ==
    \/ SemanticEdits(Contents, MaxEditHistory)
    \/ Dictations(Contents, MaxEditHistory)
    \/ Deletions(MaxEditHistory)

SpecEdit == InitEdit /\ [][NextEdit]_vars

\* The edit calls alone, on the sentences of the preposition rules.
InitRules == InitWith(RuleTexts)

NextRules ==
    \/ SemanticEdits(RuleContents, MaxRuleHistory)
    \/ Dictations(RuleContents, MaxRuleHistory)
    \/ Deletions(MaxRuleHistory)

SpecRules == InitRules /\ [][NextRules]_vars

\* The edit calls alone, on sentences and contents made of the words of the
\* classifier's pattern lists.
InitClassify == InitWith(ClassifyTexts)

NextClassify ==
    \/ SemanticEdits(ClassifyContents, MaxClassifyHistory)
    \/ Dictations(ClassifyContents, MaxClassifyHistory)
    \/ Deletions(MaxClassifyHistory)

SpecClassify == InitClassify /\ [][NextClassify]_vars

\* The edit calls alone, on sentences with five-word phrases.
InitPhrase == InitWith(PhraseTexts)

NextPhrase ==
    \/ SemanticEdits(PhraseContents, MaxPhraseHistory)
    \/ Dictations(PhraseContents, MaxPhraseHistory)
    \/ Deletions(MaxPhraseHistory)

SpecPhrase == InitPhrase /\ [][NextPhrase]_vars

----------------------------------------------------------------------------
(* Voice sessions, the mouse and the buttons.                              *)

\* activeWordIndexRef.current after the effect of updateActiveWordRef
activeWordIndex ==
    IF focusedWordIndex # null THEN focusedWordIndex ELSE lockedWordIndex

\* the span of index i is rendered and holds a word (word.trim() !== "")
IsWordSpan(i) == i >= 0 /\ i < Len(words) /\ trim(words[i + 1]) # <<>>

WordSpans == {i \in 0..(Len(words) - 1) : IsWordSpan(i)}

\* the recognizer has been started and its onend has not fired yet
SessionOpen == recognition \in {"starting", "started", "stopping", "errored"}

\* the history has room for n more entries and for the edits that are still
\* to come: one from the open session's onend and one from each pending
\* timer of simulateVoiceInput
Room(n) ==
    historyIndex + 1 + (IF SessionOpen THEN 1 ELSE 0) + Len(simulationTimers) + n
        <= MaxVoiceHistory

\* a handler that changes neither text nor history, on the return path
\* named: its showTemporaryFeedback call, if it makes one; lastOp keeps the
\* last handler that went through the document
Trace(outcome) ==
    /\ showFeedback' = (showFeedback \/ feedbackOf(outcome) # null)
    /\ UNCHANGED lastOp

\* handleKeyDown for a Space press that is no repeat, and the startListening()
\* it calls when isListening is false
KeyDownSpace ==
    /\ ~spaceHeld
    /\ Room(1)
    /\ spaceHeld' = TRUE
    /\ UNCHANGED <<docVars, focusedWordIndex, lockedWordIndex, realTimeSpeechTextRef,
                   pointer, simulationTimers>>
    /\ IF isListening \/ isListeningRef \/ isStartingRef
       THEN /\ Trace("keyDownIgnored")
            /\ UNCHANGED <<isListening, isListeningRef, isStartingRef,
                           stopRequestedRef, recognition>>
       ELSE IF recognition = "unsupported"
       THEN /\ isListeningRef' = TRUE
            /\ isStartingRef' = FALSE
            /\ isListening' = TRUE
            /\ Trace("simulatingRecognition")
            /\ UNCHANGED <<stopRequestedRef, recognition>>
       ELSE IF recognition = "idle"
       THEN /\ isStartingRef' = TRUE
            /\ stopRequestedRef' = FALSE
            /\ recognition' = "starting"
            /\ Trace("starting")
            /\ UNCHANGED <<isListening, isListeningRef>>
       ELSE \* recognition.start() throws: the recognizer has already started
            /\ stopRequestedRef' = FALSE
            /\ isListeningRef' = FALSE
            /\ isListening' = FALSE
            /\ isStartingRef' = FALSE
            /\ Trace("startError")
            /\ UNCHANGED recognition

\* handleKeyUp for Space, and the stopListening(true) it calls when
\* isListening is true
KeyUpSpace ==
    /\ spaceHeld
    /\ spaceHeld' = FALSE
    /\ UNCHANGED <<docVars, focusedWordIndex, lockedWordIndex, isListening,
                   isListeningRef, isStartingRef, realTimeSpeechTextRef, pointer,
                   simulationTimers>>
    /\ IF ~isListening
       THEN Trace("keyUpIgnored") /\ UNCHANGED <<stopRequestedRef, recognition>>
       ELSE IF isStartingRef
       THEN /\ stopRequestedRef' = TRUE
            /\ Trace("stopQueued")
            /\ UNCHANGED recognition
       ELSE IF ~isListeningRef
       THEN Trace("stopIgnored") /\ UNCHANGED <<stopRequestedRef, recognition>>
       ELSE /\ recognition' = IF recognition = "started" THEN "stopping"
                              ELSE recognition
            /\ Trace("stopping")
            /\ UNCHANGED stopRequestedRef

\* recognition.onstart
OnStart ==
    /\ recognition = "starting"
    /\ isListeningRef' = TRUE
    /\ isStartingRef' = FALSE
    /\ UNCHANGED <<docVars, focusedWordIndex, lockedWordIndex, stopRequestedRef,
                   spaceHeld, pointer, simulationTimers>>
    /\ IF stopRequestedRef
       THEN \* stopListening(): recognition.stop(), and onstart returns
            /\ recognition' = "stopping"
            /\ Trace("stoppedOnStart")
            /\ UNCHANGED <<isListening, realTimeSpeechTextRef>>
       ELSE /\ recognition' = "started"
            /\ isListening' = TRUE
            /\ realTimeSpeechTextRef' = <<>>
            /\ Trace("listening")

\* onresult that appends every result to the text as it arrives
OnResult_appliesResult(transcriptText) ==
    /\ recognition \in {"started", "stopping"}
    /\ realTimeSpeechTextRef' = transcriptText
    /\ Commit(appendDictation(text, editHistory, historyIndex, transcriptText))
    /\ UNCHANGED <<focusedWordIndex, lockedWordIndex, isListening,
                   isListeningRef, isStartingRef, stopRequestedRef, recognition,
                   spaceHeld, pointer, simulationTimers>>

\* recognition.onresult with the transcript of an interim or final result
OnResult(transcriptText) ==
    /\ recognition \in {"started", "stopping"}
    /\ realTimeSpeechTextRef' = transcriptText
    /\ Trace("result")
    /\ UNCHANGED <<docVars, focusedWordIndex, lockedWordIndex, isListening,
                   isListeningRef, isStartingRef, stopRequestedRef, recognition,
                   spaceHeld, pointer, simulationTimers>>

\* recognition.onend: the closed-over transcript is the one of the first
\* render, "", so currentTranscript is realTimeSpeechTextRef.current
OnEnd ==
    /\ recognition \in {"started", "stopping", "errored"}
    /\ recognition' = "idle"
    /\ LET currentActiveWord == activeWordIndex
           currentTranscript == realTimeSpeechTextRef
       IN  IF currentTranscript # <<>>
           THEN IF currentActiveWord # null
                THEN Commit(applySemanticEdit(text, words, editHistory, historyIndex,
                                              currentActiveWord[1], currentTranscript))
                ELSE Commit(appendDictation(text, editHistory, historyIndex,
                                            currentTranscript))
           ELSE Trace("noSpeech") /\ UNCHANGED docVars
    /\ isListeningRef' = FALSE
    /\ isStartingRef' = FALSE
    /\ isListening' = FALSE
    /\ realTimeSpeechTextRef' = <<>>
    /\ UNCHANGED <<focusedWordIndex, lockedWordIndex, stopRequestedRef, spaceHeld,
                   pointer, simulationTimers>>

\* recognition.onerror; the recognizer fires onend after it
OnError ==
    /\ recognition \in {"starting", "started", "stopping"}
    /\ recognition' = "errored"
    /\ isListeningRef' = FALSE
    /\ isStartingRef' = FALSE
    /\ isListening' = FALSE
    /\ Trace("recognitionError")
    /\ UNCHANGED <<docVars, focusedWordIndex, lockedWordIndex, stopRequestedRef,
                   realTimeSpeechTextRef, spaceHeld, pointer, simulationTimers>>

\* simulateVoiceInput(input), called through the component's handle
SimulateVoiceInput(input) ==
    /\ Len(simulationTimers) < MaxSimulationTimers
    /\ Room(1)
    /\ UNCHANGED <<docVars, focusedWordIndex, lockedWordIndex, isStartingRef,
                   stopRequestedRef, recognition, spaceHeld, pointer>>
    /\ LET activeIndex == activeWordIndex
       IN  IF activeIndex = null
           THEN /\ Trace("hoverFirst")
                /\ UNCHANGED <<isListening, isListeningRef, realTimeSpeechTextRef,
                               simulationTimers>>
           ELSE /\ isListeningRef' = TRUE
                /\ isListening' = TRUE
                /\ realTimeSpeechTextRef' = input
                /\ Trace("simulated")
                /\ simulationTimers' =
                       Append(simulationTimers,
                              [activeIndex |-> activeIndex[1], input |-> input,
                               hideAhead |-> showFeedback,
                               word |-> IF IsWordSpan(activeIndex[1])
                                        THEN words[activeIndex[1] + 1]
                                        ELSE <<>>])

\* the setTimeout callback of simulateVoiceInput, 1000 ms after the call
SimulationTimer ==
    /\ simulationTimers # <<>>
    /\ LET timer == Head(simulationTimers)
       IN  Commit(applySemanticEdit(text, words, editHistory, historyIndex,
                                    timer.activeIndex, timer.input))
    /\ simulationTimers' = Tail(simulationTimers)
    /\ isListeningRef' = FALSE
    /\ isListening' = FALSE
    /\ focusedWordIndex' = null
    /\ lockedWordIndex' = null
    /\ realTimeSpeechTextRef' = <<>>
    /\ UNCHANGED <<isStartingRef, stopRequestedRef, recognition, spaceHeld, pointer>>

\* the setTimeout callback of showTemporaryFeedback, 3000 ms after a call.
\* While a timer of simulateVoiceInput is pending it can only be one that
\* was set before that call (there is one if the toast was showing then).
HideFeedback ==
    /\ showFeedback
    /\ simulationTimers # <<>> => Head(simulationTimers).hideAhead
    /\ showFeedback' = FALSE
    /\ UNCHANGED <<docVars, focusedWordIndex, lockedWordIndex, isListening, voiceVars,
                   lastOp>>

\* handleClickOutside (document mousedown) with the mouse where it is
handleClickOutside(focused, locked) ==
    IF pointer = Outside
    THEN IF focused # null /\ focused # locked
         THEN [focusedWordIndex |-> null, lockedWordIndex |-> focused]
         ELSE [focusedWordIndex |-> focused, lockedWordIndex |-> locked]
    ELSE [focusedWordIndex |-> focused, lockedWordIndex |-> null]

\* the mouse moves to p: onMouseLeave of the word span it was on, then
\* onMouseEnter of the word span it comes to
MovePointer(p) ==
    /\ p # pointer
    /\ pointer' = p
    /\ LET ignored == lockedWordIndex # null \/ isListening
       IN  focusedWordIndex' =
               IF ignored THEN focusedWordIndex
               ELSE IF IsWordSpan(p) THEN <<p>>
               ELSE IF IsWordSpan(pointer) THEN null
               ELSE focusedWordIndex
    /\ Trace("mouseMove")
    /\ UNCHANGED <<docVars, lockedWordIndex, isListening, isListeningRef,
                   isStartingRef, stopRequestedRef, realTimeSpeechTextRef,
                   recognition, spaceHeld, simulationTimers>>

\* a mousedown that no click on a word or button follows
MouseDown ==
    /\ LET after == handleClickOutside(focusedWordIndex, lockedWordIndex)
       IN  /\ focusedWordIndex' = after.focusedWordIndex
           /\ lockedWordIndex' = after.lockedWordIndex
    /\ Trace("mouseDown")
    /\ UNCHANGED <<docVars, isListening, voiceVars>>

\* a click on the word span the mouse is on: the mousedown, then onClick
ClickWord ==
    /\ IsWordSpan(pointer)
    /\ isListening \/ Room(1)
    /\ LET r == deleteWord(text, words, editHistory, historyIndex, isListening,
                           pointer)
           after == handleClickOutside(focusedWordIndex, lockedWordIndex)
       IN  /\ Commit(r)
           /\ IF r.outcome = "deleteWord"
              THEN focusedWordIndex' = null /\ lockedWordIndex' = null
              ELSE /\ focusedWordIndex' = after.focusedWordIndex
                   /\ lockedWordIndex' = after.lockedWordIndex
    /\ UNCHANGED <<isListening, voiceVars>>

\* a click on the Undo button, which is rendered while no toast is shown and
\* enabled while historyIndex > 0: the mousedown, then undo()
ClickUndo ==
    /\ pointer = Outside
    /\ ~showFeedback
    /\ historyIndex > 0
    /\ LET after == handleClickOutside(focusedWordIndex, lockedWordIndex)
       IN  /\ focusedWordIndex' = after.focusedWordIndex
           /\ lockedWordIndex' = after.lockedWordIndex
    /\ Commit(undo(text, editHistory, historyIndex))
    /\ UNCHANGED <<isListening, voiceVars>>

\* a click on the Redo button, rendered while no toast is shown and enabled
\* while historyIndex < editHistory.length - 1: the mousedown, then redo()
ClickRedo ==
    /\ pointer = Outside
    /\ ~showFeedback
    /\ historyIndex < Len(editHistory) - 1
    /\ Room(0)
    /\ LET after == handleClickOutside(focusedWordIndex, lockedWordIndex)
       IN  /\ focusedWordIndex' = after.focusedWordIndex
           /\ lockedWordIndex' = after.lockedWordIndex
    /\ Commit(redo(text, editHistory, historyIndex))
    /\ UNCHANGED <<isListening, voiceVars>>

\* The editor with its voice sessions: the Space key, the recognizer's events
\* (or no recognizer) and the mouse.
NextVoice ==
    \/ KeyDownSpace
    \/ KeyUpSpace
    \/ OnStart
    \/ \E transcriptText \in VoiceContents : OnResult(transcriptText)
    \/ OnEnd
    \/ OnError
    \/ \E p \in {Outside, Gap} \cup WordSpans : MovePointer(p)
    \/ MouseDown
    \/ ClickWord

SpecVoice ==
    InitEditor(VoiceTexts, {"idle", "unsupported"}) /\ [][NextVoice]_vars

\* The editor driven through simulateVoiceInput, with what can fall into the
\* delay of its timer: a recognition session (Space held for its length),
\* clicks on words, the Undo and Redo buttons and the hiding of the toast.
NextSimulate ==
    \/ \E input \in {say_tomorrow} : SimulateVoiceInput(input)
    \/ SimulationTimer
    \/ HideFeedback
    \/ KeyDownSpace
    \/ OnStart
    \/ OnEnd
    \/ \E p \in {Outside} \cup WordSpans : MovePointer(p)
    \/ ClickWord
    \/ ClickUndo
    \/ ClickRedo

SpecSimulate ==
    InitEditor({text_on_monday_only}, {"idle"}) /\ [][NextSimulate]_vars

\* The same with the recognizer's scheduling: a recognizer that was asked to
\* start fires onstart unless it fails, and one that has started fires onend,
\* because stop() was called or because it is not continuous and ends after
\* one utterance.
SpecVoiceFair ==
    SpecVoice /\ WF_vars(OnStart) /\ WF_vars(OnEnd)

----------------------------------------------------------------------------
(* Properties.                                                             *)

EditOutcomes == {"semanticEdit", "dictation", "deleteWord"}

\* the document a handler's result leaves
DocOf(r) == <<r.text, r.editHistory, r.historyIndex>>

\* C1: in every reachable state the history cursor is a valid index into the
\* history: 0 <= historyIndex < editHistory.length.
C1_CursorValid == 0 <= historyIndex /\ historyIndex < Len(editHistory)

\* two edits were made and one of them undone
C1_Witness ==
    /\ lastOp.outcome = "undo"
    /\ Len(editHistory) = 3
    /\ historyIndex = 1

\* C2: every successful edit made at cursor c leaves the history equal to
\* the old entries 0..c followed by the new text, with the cursor on that
\* last entry, so that a redo right after it changes nothing.
C2_EditTruncatesAndAppends ==
    [][lastOp'.outcome \in EditOutcomes =>
          /\ editHistory' = SubSeq(editHistory, 1, historyIndex + 1) \o <<text'>>
          /\ historyIndex' = Len(editHistory') - 1
          /\ historyIndex' = historyIndex + 1
          /\ DocOf(redo(text', editHistory', historyIndex'))
                = <<text', editHistory', historyIndex'>>]_vars

\* an edit made with a redo entry pending: the entry is gone
C2_Witness ==
    /\ lastOp.outcome \in EditOutcomes
    /\ lastOp.redoBefore > 0
    /\ historyIndex = Len(editHistory) - 1

\* C3: whenever undo is possible (cursor > 0), undo() followed by redo()
\* restores the same text, the same history and the same cursor.
C3_UndoRedoRestores ==
    historyIndex > 0 =>
        LET u == undo(text, editHistory, historyIndex)
            r == redo(u.text, u.editHistory, u.historyIndex)
        IN  DocOf(r) = <<text, editHistory, historyIndex>>

\* a redo has just brought the cursor back to the last of several entries
C3_Witness ==
    /\ lastOp.outcome = "redo"
    /\ lastOp.redoBefore = 1
    /\ historyIndex > 0
    /\ historyIndex = Len(editHistory) - 1

\* C4: undo() at cursor 0 and redo() at the last entry change nothing: text,
\* token list, history and cursor stay as they are.
C4_NoOpAtBounds ==
    [][/\ (historyIndex = 0 /\ Undo) => UNCHANGED docVars
       /\ (historyIndex = Len(editHistory) - 1 /\ Redo) => UNCHANGED docVars]_vars

\* undo() was called at cursor 0 of a history that has later entries
C4_Witness ==
    /\ lastOp.outcome = "undoAtStart"
    /\ historyIndex = 0
    /\ Len(editHistory) > 1

\* no two adjacent space characters
NoAdjacentSpaces(s) == \A k \in 1..(Len(s) - 1) : ~(s[k] = " " /\ s[k + 1] = " ")

\* C5: after any edit (targeted replacement, dictation, word deletion) with
\* any non-blank content, the text has no two adjacent space characters.
C5_NoDoubleSpaceAfterEdit ==
    lastOp.outcome \in EditOutcomes => NoAdjacentSpaces(text)

\* every character is whitespace (the empty content included)
IsBlank(c) == \A k \in 1..Len(c) : IsWs(c[k])

\* C6: a targeted edit or a dictation whose content is empty or only
\* whitespace changes nothing: text, token list, history and cursor stay.
C6_BlankContentChangesNothing ==
    [][\A c \in Contents : IsBlank(c) =>
          /\ (\E i \in 0..Len(words) : ApplySemanticEdit(i, c)) => UNCHANGED docVars
          /\ AppendDictation(c) => UNCHANGED docVars]_vars

\* a targeted edit with blank content was made on a sentence and dropped
C6_Witness ==
    /\ lastOp.outcome = "emptyContent"
    /\ text = text_meeting_monday
    /\ editHistory = <<text_meeting_monday>>

\* position i (0-based) is outside the token list or holds a whitespace token
Untargetable(ws, i) == i >= Len(ws) \/ IsBlank(ws[i + 1])

\* what the call applySemanticEdit(i, c) makes of the document as it is, the
\* structuredWords of its token list given
EditAt(structuredWords, i, c) ==
    applySemanticEditOn(structuredWords, text, words, editHistory, historyIndex, i, c)

\* C7: a targeted edit whose index is a whitespace token or lies outside the
\* token list (any index of the empty document included) leaves text, history
\* and cursor unchanged.
C7_UntargetableIndexChangesNothing ==
    LET structuredWords == structuredWordsOf(words)
    IN  \A c \in Contents : \A i \in 0..(Len(words) + 1) :
            Untargetable(words, i)
               => DocOf(EditAt(structuredWords, i, c)) = <<text, editHistory, historyIndex>>

\* a targeted edit with spoken content found no word at its index
C7_Witness ==
    /\ lastOp.outcome = "targetNotFound"
    /\ text = text_meeting_monday
    /\ editHistory = <<text_meeting_monday>>

\* the token positions of the phrase's member of the given type that comes
\* first in the phrase (the one nearest the target): empty or a singleton
MemberIndex(phrase, type) ==
    {phrase[k].index : k \in {j \in 1..Len(phrase) :
                                  /\ phrase[j].type = type
                                  /\ \A h \in 1..(j - 1) : phrase[h].type # type}}

\* the non-whitespace tokens of ws, in order
WordsOnly(ws) ==
    LET isWord(w) == ~IsBlank(w)
    IN  SelectSeq(ws, isWord)

\* the words of ws without the tokens at the positions in removed and with
\* the token at position i replaced by content
Survivors(ws, removed, i, content) ==
    LET stays(k) == ~IsBlank(ws[k + 1]) /\ k \notin removed
        kept == SelectSeq([k \in 1..Len(ws) |-> k - 1], stays)
    IN  [k \in 1..Len(kept) |-> IF kept[k] = i THEN content ELSE ws[kept[k] + 1]]

RECURSIVE joinWithSpaces(_)
joinWithSpaces(ws) ==
    IF ws = <<>> THEN <<>>
    ELSE IF Len(ws) = 1 THEN ws[1]
    ELSE ws[1] \o <<" ">> \o joinWithSpaces(Tail(ws))

\* every whitespace run of s is one space
SingleSpaced(s) ==
    \A k \in 1..Len(s) : IsWs(s[k]) => s[k] = " " /\ (k < Len(s) => ~IsWs(s[k + 1]))

\* the sentences of scenarios A, B and C after the edit
text_meeting_tomorrow ==
    <<"M", "e", "e", "t", "i", "n", "g", " ", "t", "o", "m", "o", "r", "r", "o", "w",
      " ", "a", "t", " ", "3", "p", "m">>

text_meeting_next_tuesday ==
    <<"M", "e", "e", "t", "i", "n", "g", " ", "n", "e", "x", "t", " ",
      "T", "u", "e", "s", "d", "a", "y", " ", "a", "t", " ", "3", "p", "m">>

text_meet_online ==
    <<"M", "e", "e", "t", " ", "m", "e", " ", "o", "n", "l", "i", "n", "e">>

StripLeadingNext(c) ==
    IF startsWith(toLowerCase(c), str_next \o <<" ">>)
    THEN SubSeq(c, Len(str_next) + 2, Len(c))
    ELSE c

\* C9: when the target is a Day word, the content is a Day that contains
\* "next" and the phrase's preposition is exactly "on", no token is removed:
\* the result is the original with the preposition token rewritten to "next"
\* and the target replaced by the content without its leading "next ".
C9_NextRewritesPreposition ==
    LET structuredWords == structuredWordsOf(words)
    IN  \A c \in Contents :
          (/\ includes(toLowerCase(c), str_next)
           /\ classifyNewContent(toLowerCase(trim(c))) = "day") =>
          \A k \in 1..Len(structuredWords) :
            LET target == structuredWords[k]
                phrase == findPhraseMembers(structuredWords, target)
                result == EditAt(structuredWords, target.index, c)
            IN  target.type = "day"
                => \A p \in MemberIndex(phrase, "preposition") :
                      toLowerCase(words[p + 1]) = str_on
                      => /\ result.outcome = "semanticEdit"
                         /\ result.text = join([words EXCEPT ![p + 1] = str_next,
                                                            ![target.index + 1] =
                                                                StripLeadingNext(c)])

\* scenario B has run: "Meeting on Monday at 3pm" became
\* "Meeting next Tuesday at 3pm"
C9_Witness ==
    /\ lastOp.outcome = "semanticEdit"
    /\ editHistory = <<text_meeting_monday, text_meeting_next_tuesday>>
    /\ text = text_meeting_next_tuesday

StripLeadingWord(c, word) ==
    IF startsWith(toLowerCase(c), word \o <<" ">>)
    THEN SubSeq(c, Len(word) + 2, Len(c))
    ELSE c

\* What the preposition rule of one type promises for content of that type
\* that starts with the type's preposition: a phrase preposition other than
\* it is rewritten to it and the content loses its leading preposition; with
\* no phrase preposition the content is placed as it is; nothing else changes.
PrepositionRewritten(type, prep) ==
    LET structuredWords == structuredWordsOf(words)
    IN  \A c \in Contents :
          (/\ startsWith(toLowerCase(c), prep \o <<" ">>)
           /\ classifyNewContent(toLowerCase(trim(c))) = type) =>
          \A k \in 1..Len(structuredWords) :
            LET target == structuredWords[k]
                phrase == findPhraseMembers(structuredWords, target)
                prepositions == MemberIndex(phrase, "preposition")
                result == EditAt(structuredWords, target.index, c)
            IN  target.type = type
                => /\ \A p \in prepositions :
                        toLowerCase(words[p + 1]) # prep
                        => /\ result.outcome = "semanticEdit"
                           /\ result.text =
                                 join([words EXCEPT ![p + 1] = prep,
                                                    ![target.index + 1] =
                                                        StripLeadingWord(c, prep)])
                   /\ prepositions = {}
                        => /\ result.outcome = "semanticEdit"
                           /\ result.text = join([words EXCEPT ![target.index + 1] = c])

\* C11: Location content starting with "in " on a Location target, and Time
\* content starting with "at " on a Time target: a phrase preposition other
\* than "in" (resp. "at") is rewritten to it and the leading "in " (resp.
\* "at ") is stripped from the content placed at the target; when the phrase
\* has no preposition the content is placed unchanged and no other token
\* changes.
C11_PrepositionRewrite ==
    /\ PrepositionRewritten("location", str_in)
    /\ PrepositionRewritten("time", str_at)

\* "Visit Studio at noon"
text_visit_studio_at_noon ==
    <<"V", "i", "s", "i", "t", " ", "S", "t", "u", "d", "i", "o", " ", "a",
      "t", " ", "n", "o", "o", "n">>

\* "Visit Studio by 5pm" became "Visit Studio at noon": "by" was rewritten
C11_Witness ==
    /\ lastOp.outcome = "semanticEdit"
    /\ editHistory = <<text_visit_studio, text_visit_studio_at_noon>>
    /\ text = text_visit_studio_at_noon

text_meeting_noon_laptop ==
    <<"M", "e", "e", "t", "i", "n", "g", " ", "t", "o", "m", "o", "r", "r",
      "o", "w", " ", "a", "t", " ", "n", "o", "o", "n", " ", "b", "r", "i",
      "n", "g", " ", "l", "a", "p", "t", "o", "p">>

EditsTaken == CanGrow(MaxEditHistory)

\* the types that have a rewrite rule
RuleTypes == {"day", "time", "location"}

\* C13: unless the target's type equals the new content's type (and is Day,
\* Time or Location), a targeted edit changes only the target token, which
\* becomes the raw new content: every other token, whitespace runs
\* included, is unchanged. Stated for every document from which an edit is
\* made, every word of it and every non-blank content.
C13_OnlyTargetChangesAcrossTypes ==
    EditsTaken =>
    LET structuredWords == structuredWordsOf(words)
    IN  \A c \in Contents : ~IsBlank(c) =>
          LET newType == classifyNewContent(toLowerCase(trim(c)))
          IN  \A k \in 1..Len(structuredWords) :
                LET target == structuredWords[k]
                    result == EditAt(structuredWords, target.index, c)
                IN  ~(target.type = newType /\ newType \in RuleTypes)
                    => /\ result.outcome = "semanticEdit"
                       /\ result.text = join([words EXCEPT ![target.index + 1] = c])

\* "Hi world"
text_hi_world ==
    <<"H", "i", " ", "w", "o", "r", "l", "d">>

\* "Hello" of "Hello world" was replaced by "Hi"
C13_Witness ==
    /\ lastOp.outcome = "semanticEdit"
    /\ editHistory = <<text_hello_world, text_hi_world>>
    /\ text = text_hi_world

\* C14: a click on a word gives exactly the text the reassembler gives for
\* the same token list with only that token blanked (nothing else
\* normalized or trimmed), pushed onto the history as the other edits are.
C14_DeleteIsReassembly ==
    [][\A index \in 0..(Len(words) - 1) :
          (DeleteWord(index) /\ lastOp'.outcome = "deleteWord")
          => /\ text' = reassemble([words EXCEPT ![index + 1] = <<>>])
             /\ editHistory' = SubSeq(editHistory, 1, historyIndex + 1) \o <<text'>>
             /\ historyIndex' = Len(editHistory') - 1]_vars

\* s neither starts nor ends with whitespace
NoWhitespaceAtEnds(s) == s = <<>> \/ (~IsWs(s[1]) /\ ~IsWs(s[Len(s)]))

\* C15: a targeted edit of a text that neither starts nor ends with
\* whitespace, with content that has none at its ends, leaves a text that
\* neither starts nor ends with whitespace, whichever tokens the rule blanked.
C15_NoWhitespaceArtifactAtEnds ==
    [][\A c \in Contents : \A i \in 0..(Len(words) - 1) :
          (/\ NoWhitespaceAtEnds(text)
           /\ NoWhitespaceAtEnds(c)
           /\ lastOp'.outcome = "semanticEdit"
           /\ ApplySemanticEdit(i, c))
          => NoWhitespaceAtEnds(text')]_vars

\* every token is a non-empty run of whitespace or a non-empty run of
\* non-whitespace, and neighbouring tokens are of different kinds
AlternatingRuns(ws) ==
    /\ \A k \in 1..Len(ws) :
          /\ ws[k] # <<>>
          /\ \A j \in 1..Len(ws[k]) : IsWs(ws[k][j]) = IsWs(ws[k][1])
    /\ \A k \in 1..(Len(ws) - 1) : IsWs(ws[k][1]) # IsWs(ws[k + 1][1])

\* C16: the tokens of the text concatenate back to the text and alternate
\* between non-whitespace and whitespace runs, and reassembling them with no
\* token blanked and any target replaced by its own text returns the text,
\* multi-space runs included.
C16_TokenizeReassembleRoundTrip ==
    /\ words = Tokenize(text)
    /\ join(words) = text
    /\ AlternatingRuns(words)
    /\ \A i \in 0..(Len(words) - 1) : [words EXCEPT ![i + 1] = words[i + 1]] = words
    /\ reassemble(words) = text

\* "Friday  world"
text_friday_world ==
    <<"F", "r", "i", "d", "a", "y", " ", " ", "w", "o", "r", "l", "d">>

\* a text with a two-space run has been split into its tokens
C16_Witness ==
    /\ text = text_friday_world
    /\ Len(words) = 3
    /\ words[2] = <<" ", " ">>
    /\ lastOp.outcome = "semanticEdit"

----------------------------------------------------------------------------
\* the return paths of an edit request: the three successful edits and the
\* three dropped ones
EditRequestOutcomes ==
    EditOutcomes \cup {"emptyContent", "targetNotFound", "emptyDictation"}

\* C17: every edit request produces a status message, whether it succeeds
\* (targeted edit, dictation, deletion) or is dropped for blank content
\* (EmptyInput) or for a selection index that is whitespace or out of range
\* (TargetNotFound): after any such request the handler has given a message
\* to showTemporaryFeedback.
C17_EveryEditRequestGivesFeedback ==
    lastOp.outcome \in EditRequestOutcomes => lastOp.feedback # null

----------------------------------------------------------------------------
\* the seven types the existing-word classifier gives
ExistingTypes ==
    {"day", "time", "location", "preposition", "article", "temporal", "other"}

\* the word is in none of the listed word sets and matches none of the Day,
\* Time and Location patterns
InNoListedClass(word) ==
    /\ ~testAny(word, WeekdayPattern)
    /\ ~testTimePattern(word)
    /\ ~testAny(word, LocationPattern)
    /\ word \notin PrepositionPattern \cup ArticlePattern \cup TemporalPattern

\* C18: the existing-token classifier is total, gives one type per word by
\* first match in the order Day, Time, Location, Preposition, Article,
\* Temporal, and its classes are the listed word sets: in the structuredWords
\* a targeted edit builds, a word typed Preposition is one of at, in, on, for,
\* with, to, by, a word typed Article is one of the, a, an, this, that, these,
\* those, and a word in none of the listed sets or patterns is typed Other.
C18_ClassesAreTheListedWordSets ==
    [][\A c \in Contents : \A i \in 0..(Len(words) - 1) :
          (ApplySemanticEdit(i, c) /\ lastOp'.outcome = "semanticEdit") =>
              LET structuredWords == structuredWordsOf(words)
              IN  \A k \in 1..Len(structuredWords) :
                    LET w == structuredWords[k]
                    IN  /\ w.type \in ExistingTypes
                        /\ w.type = classifyWord(w.word)
                        /\ w.type = "preposition" => w.word \in PrepositionPattern
                        /\ w.type = "article" => w.word \in ArticlePattern
                        /\ InNoListedClass(w.word) => w.type = "other"]_vars

----------------------------------------------------------------------------
\* the words the new-content patterns have and the existing-word patterns
\* have not
NewContentExtras ==
    {str_tomorrow, str_today, str_yesterday, str_conference_room, str_online}

\* C19: the new-content classifier accepts everything the existing-token
\* classifier accepts for Day, Time and Location, plus the documented extras:
\* content the existing-token patterns type Day, Time or Location (studio,
\* office, room, home, building) gets the same type as replacement content of
\* a targeted edit, and where the two classifiers differ on a content the
\* content has one of tomorrow, today, yesterday, conference room, online.
C19_NewContentAcceptsExistingClasses ==
    [][\A c \in ClassifyContents : \A i \in 0..(Len(words) - 1) :
          (ApplySemanticEdit(i, c) /\ lastOp'.outcome = "semanticEdit") =>
              LET newContentLower == toLowerCase(trim(c))
                  existingType == classifyWord(newContentLower)
                  newType == classifyNewContent(newContentLower)
              IN  /\ existingType \in RuleTypes => newType = existingType
                  /\ (newType \in RuleTypes /\ newType # existingType)
                        => testAny(newContentLower, NewContentExtras)]_vars

----------------------------------------------------------------------------
\* the words of the documented pattern sets
ListedWords ==
    WeekdayPattern \cup LocationPattern \cup PrepositionPattern
        \cup ArticlePattern \cup TemporalPattern

\* the categories whose pattern the word matches
MatchedCategories(word) ==
    {category \in ExistingTypes :
        \/ category = "day" /\ testAny(word, WeekdayPattern)
        \/ category = "time" /\ testTimePattern(word)
        \/ category = "location" /\ testAny(word, LocationPattern)
        \/ category = "preposition" /\ testAny(word, PrepositionPattern)
        \/ category = "article" /\ testAny(word, ArticlePattern)
        \/ category = "temporal" /\ testAny(word, TemporalPattern)}

\* the categories whose list has the word
ListedUnder(word) ==
    {category \in ExistingTypes :
        \/ category = "day" /\ word \in WeekdayPattern
        \/ category = "location" /\ word \in LocationPattern
        \/ category = "preposition" /\ word \in PrepositionPattern
        \/ category = "article" /\ word \in ArticlePattern
        \/ category = "temporal" /\ word \in TemporalPattern}

\* C20: no word of the documented pattern sets matches more than one
\* category: in the structuredWords a targeted edit builds, a listed weekday,
\* location word, preposition, article or temporal word (next, last, this,
\* coming, previous) matches the pattern of the one category it is listed
\* under and no other, and is classified as that category.
C20_ListedWordsMatchOneCategory ==
    [][\A c \in ClassifyContents : \A i \in 0..(Len(words) - 1) :
          (ApplySemanticEdit(i, c) /\ lastOp'.outcome = "semanticEdit") =>
              LET structuredWords == structuredWordsOf(words)
              IN  \A k \in 1..Len(structuredWords) :
                    LET w == structuredWords[k]
                    IN  w.word \in ListedWords =>
                          /\ Cardinality(ListedUnder(w.word)) = 1
                          /\ MatchedCategories(w.word) = ListedUnder(w.word)
                          /\ {w.type} = ListedUnder(w.word)]_vars

----------------------------------------------------------------------------
\* the positions (1-based) of structuredWords that hold the member
PositionsOf(structuredWords, member) ==
    {j \in 1..Len(structuredWords) : structuredWords[j] = member}

\* C21: the phrase the scope resolver returns always contains the target, and
\* each scan direction examines at most 3 word positions: in a targeted edit
\* every member of findPhraseMembers(structuredWords, target) is a word of
\* structuredWords at most 3 word positions before or after the target.
C21_PhraseWithinThreePositions ==
    [][\A c \in PhraseContents : \A i \in 0..(Len(words) - 1) :
          (ApplySemanticEdit(i, c) /\ lastOp'.outcome = "semanticEdit") =>
              LET structuredWords == structuredWordsOf(words)
                  targetIndex ==
                      CHOOSE k \in 1..Len(structuredWords) :
                          structuredWords[k].index = i
                  phrase == findPhraseMembers(structuredWords,
                                              structuredWords[targetIndex])
              IN  /\ \E m \in 1..Len(phrase) : phrase[m].index = i
                  /\ \A m \in 1..Len(phrase) :
                        \E j \in PositionsOf(structuredWords, phrase[m]) :
                            /\ j - targetIndex <= 3
                            /\ targetIndex - j <= 3]_vars

----------------------------------------------------------------------------
\* C26: in every reachable state the displayed text is the history entry
\* under the cursor, text = editHistory[historyIndex], after any interleaving
\* of targeted edits, dictations, deletions, undo and redo.
C26_TextIsEntryUnderCursor ==
    /\ historyIndex + 1 \in DOMAIN editHistory
    /\ text = editHistory[historyIndex + 1]

\* an undo has moved the cursor onto an earlier entry that differs from the
\* last one
C26_Witness ==
    /\ lastOp.outcome = "undo"
    /\ historyIndex + 1 < Len(editHistory)
    /\ editHistory[historyIndex + 1] # editHistory[Len(editHistory)]
    /\ text = editHistory[historyIndex + 1]

----------------------------------------------------------------------------
\* the words (lower-cased) that stand twice in a row in the string
DoubledWords(s) ==
    LET ws == WordsOnly(Tokenize(s))
    IN  {toLowerCase(ws[k]) : k \in {j \in 1..(Len(ws) - 1) :
                                        toLowerCase(ws[j]) = toLowerCase(ws[j + 1])}}

\* C30: a rule-driven targeted edit never duplicates a word at the edit
\* site: the text after the edit has no two adjacent identical words unless
\* they were adjacent in the text before the edit or adjacent inside the new
\* content (no "the the", "at at", "in in" or "next next" made by combining
\* surviving phrase tokens with the content).
C30_NoDuplicatedWordAtEditSite ==
    [][\A c \in RuleContents : \A i \in 0..(Len(words) - 1) :
          (/\ ApplySemanticEdit(i, c)
           /\ lastOp'.outcome = "semanticEdit"
           /\ classifyNewContent(toLowerCase(trim(c))) \in RuleTypes
           /\ classifyWord(toLowerCase(trim(words[i + 1])))
                  = classifyNewContent(toLowerCase(trim(c)))) =>
              DoubledWords(text') \subseteq DoubledWords(text) \cup DoubledWords(c)]_vars

----------------------------------------------------------------------------
\* the recognizer's events that do not end the session
InterimEvent ==
    \/ OnStart
    \/ \E transcriptText \in VoiceContents : OnResult(transcriptText)
    \/ OnError

\* the content is typed Other or the word at i is of another type: no rule
\* applies and the edit replaces the token
NoRuleApplies(i, c) ==
    LET newType == classifyNewContent(toLowerCase(trim(c)))
    IN  newType \notin RuleTypes \/ classifyWord(toLowerCase(trim(words[i + 1]))) # newType

\* C22: within one listening session the recognizer modifies the document at
\* most once and only when the session ends: onstart, onresult (interim and
\* final results) and onerror never change text, words, history or cursor,
\* and onend applies one edit with the selection and the transcript present
\* at that moment - the last result replaces the word under the active index
\* (when no rule applies to it), or is appended when no word is active, as
\* one new history entry, and nothing changes when there is no transcript.
C22_OneEditAtSessionEnd ==
    [][/\ InterimEvent => UNCHANGED docVars
       /\ OnEnd =>
            LET active == activeWordIndex
                said == realTimeSpeechTextRef
            IN  /\ said = <<>> => UNCHANGED docVars
                /\ (said # <<>> /\ active = null) =>
                      /\ text' = text \o (IF text = <<>> \/ IsWs(text[Len(text)])
                                           THEN <<>> ELSE <<" ">>) \o said
                      /\ editHistory' = SubSeq(editHistory, 1, historyIndex + 1)
                                            \o <<text'>>
                /\ (said # <<>> /\ active # null /\ ~IsWordSpan(active[1]))
                      => UNCHANGED docVars
                /\ (said # <<>> /\ active # null /\ IsWordSpan(active[1])
                      /\ NoRuleApplies(active[1], said)) =>
                      /\ text' = join([words EXCEPT ![active[1] + 1] = said])
                      /\ editHistory' = SubSeq(editHistory, 1, historyIndex + 1)
                                            \o <<text'>>
                /\ Len(editHistory') <= historyIndex + 2]_vars

\* a session that had interim results has ended and replaced the focused
\* word "Hello" by the last result
C22_Witness ==
    /\ lastOp.outcome = "semanticEdit"
    /\ editHistory = <<text_hello_world, text_hi_world>>
    /\ focusedWordIndex = <<0>>
    /\ recognition = "idle"
    /\ ~isListening

\* voice input is active: Space was pressed and the recognizer was asked to
\* start, or the editor is listening, and the session has not ended
VoiceActive ==
    SessionOpen \/ isStartingRef \/ isListeningRef \/ isListening

\* C23: a word cannot be deleted while voice input is active: from the
\* activation until the session has ended, a click on a word changes neither
\* the text nor the history.
C23_NoDeleteWhileVoiceActive ==
    [][(VoiceActive /\ ClickWord) => UNCHANGED docVars]_vars

\* C24: a release of the activation key that arrives while recognition is
\* still starting is not lost: it queues the stop request, and the onstart
\* that follows stops the recognizer without entering the listening state.
C24_ReleaseWhileStartingIsQueued ==
    [][/\ (recognition = "starting" /\ KeyUpSpace) => stopRequestedRef'
       /\ (OnStart /\ ~spaceHeld) => (recognition' = "stopping" /\ ~isListening')]_vars

\* the key was released and some part of the listening state is still set
ReleasedWhileActive ==
    ~spaceHeld /\ (isListening \/ isListeningRef \/ isStartingRef)

\* the editor is not listening and a press of Space starts a new session
ReadyForActivation ==
    ~isListening /\ ~isListeningRef /\ ~isStartingRef

\* C25: every voice session completes: once voice input was activated and
\* the key released, the editor eventually is not listening again and
\* accepts a new activation, with a recognizer and without one.
C25_SessionCompletes ==
    ReleasedWhileActive ~> ReadyForActivation

\* the active index is null or the index of a word (a token that is not
\* whitespace) of the current token list
ActiveSelectionValid ==
    activeWordIndex = null \/ IsWordSpan(activeWordIndex[1])

\* C27: after any operation that changes the document, the active selection
\* index is null or the index of a word of the current token list.
C27_SelectionValidAfterEdit ==
    [][text' # text => ActiveSelectionValid']_vars

\* C28: while the editor is listening, the active word index does not
\* change, whatever hover and mouse-down events occur.
C28_ActiveWordFixedWhileListening ==
    [][(isListening /\ isListening') => activeWordIndex' = activeWordIndex]_vars

\* C29: each call of simulateVoiceInput with an active word applies exactly
\* one edit, to the word that was active when it was called: when its timer
\* fires, the index it kept still holds that word, whatever undo, redo,
\* deletion or end of recognition fell into the delay, and the end of a
\* recognition session inside the delay does not apply the simulated input
\* as well.
C29_SimulatedEditHitsItsWordOnce ==
    [][/\ SimulationTimer =>
            LET timer == Head(simulationTimers)
            IN  timer.word # <<>> =>
                    /\ IsWordSpan(timer.activeIndex)
                    /\ words[timer.activeIndex + 1] = timer.word
       /\ (OnEnd /\ simulationTimers # <<>>
              /\ realTimeSpeechTextRef = Head(simulationTimers).input)
             => UNCHANGED docVars]_vars

====
